---- MODULE Spec2Model ----
(***************************************************************************)
(* Compound-betting simulation of src/main.py (Streamlit script) and the   *)
(* flat-stake profit function of src/functions.py.                         *)
(*                                                                         *)
(* Money and odds are exact integers here; the program computes them in    *)
(* IEEE doubles.  Odds are drawn from Odds, budgets from InitialBudgets,   *)
(* so every product and sum of the model is exact in a double as well.     *)
(*                                                                         *)
(* The data frame is an input.  Its team columns are read when the team is *)
(* selected and the frame is filtered (lines 51-93); the rows of the       *)
(* filtered frame are read one per loop iteration (line 102), in the order *)
(* left by the optional sort on Date, so each iteration draws its row.     *)
(***************************************************************************)
EXTENDS Integers, Sequences, FiniteSets, TLC

\* ---- bounds -------------------------------------------------------------
MaxMatches == 3          \* rows of the uploaded data frame

\* ---- input alphabets ----------------------------------------------------
NaN == "nan"             \* pandas' missing value in a team column
NoTeam == "None"         \* st.selectbox over an empty option list
Fixtures == {<<"A", "B">>, <<"B", "A">>, <<"C", "D">>, <<NaN, NaN>>}
Results == {"H", "D", "A"}
Odds == {-1, 0, 1, 2, 3}
UnreadOdds == 2          \* odds of a result that did not occur
InitialBudgets == {1, 100}
FixedGames == "After fixed number of games"
ProfitThreshold == "When reaching profit threshold"
PlayAll == "No cash out (play all games)"
FixedGamesValues == 1..(MaxMatches + 1)
ThresholdValues == {100, 200}
NoValue == 0             \* cash_out_value = None

Rows ==
  {r \in [HomeTeam : {f[1] : f \in Fixtures}, AwayTeam : {f[2] : f \in Fixtures},
          FTR : Results, XBH : Odds, XBA : Odds] :
     /\ <<r.HomeTeam, r.AwayTeam>> \in Fixtures
     /\ (r.FTR # "H" => r.XBH = UnreadOdds)
     /\ (r.FTR # "A" => r.XBA = UnreadOdds)}

DataFrames == UNION {[1..k -> Fixtures] : k \in 0..MaxMatches}

\* ---- pure functions -----------------------------------------------------
\* == on team names: a missing name equals nothing, itself included
TeamEq(a, b) == a # NaN /\ b # NaN /\ a = b

\* an away win paid at the home odds
calculate_profit_AwayUsesHomeOdds(row, team) ==
  IF TeamEq(row.HomeTeam, team) /\ row.FTR = "H"
    THEN (100 * row.XBH) - 100
  ELSE IF TeamEq(row.AwayTeam, team) /\ row.FTR = "A"
    THEN (100 * row.XBH) - 100
  ELSE -100

\* a home bet staked at 200
calculate_profit_HomeDoubleStake(row, team) ==
  IF TeamEq(row.HomeTeam, team) /\ row.FTR = "H"
    THEN (200 * row.XBH) - 200
  ELSE IF TeamEq(row.AwayTeam, team) /\ row.FTR = "A"
    THEN (100 * row.XBA) - 100
  ELSE -100

calculate_profit(row, team) ==
  IF TeamEq(row.HomeTeam, team) /\ row.FTR = "H"
    THEN (100 * row.XBH) - 100
  ELSE IF TeamEq(row.AwayTeam, team) /\ row.FTR = "A"
    THEN (100 * row.XBA) - 100
  ELSE -100

\* a draw hands the stake back
calculate_profit_with_budget_DrawRefund(row, team, budget) ==
  IF TeamEq(row.HomeTeam, team) /\ row.FTR = "H"
    THEN (budget * row.XBH) - budget
  ELSE IF TeamEq(row.AwayTeam, team) /\ row.FTR = "A"
    THEN (budget * row.XBA) - budget
  ELSE IF row.FTR = "D" THEN 0
  ELSE -budget

\* a lost bet costs the flat stake of calculate_profit
calculate_profit_with_budget_FlatLoss(row, team, budget) ==
  IF TeamEq(row.HomeTeam, team) /\ row.FTR = "H"
    THEN (budget * row.XBH) - budget
  ELSE IF TeamEq(row.AwayTeam, team) /\ row.FTR = "A"
    THEN (budget * row.XBA) - budget
  ELSE -100

\* the away branch without the test of the result
calculate_profit_with_budget_AwayIgnoresResult(row, team, budget) ==
  IF TeamEq(row.HomeTeam, team) /\ row.FTR = "H"
    THEN (budget * row.XBH) - budget
  ELSE IF TeamEq(row.AwayTeam, team)
    THEN (budget * row.XBA) - budget
  ELSE -budget

\* the home branch without the test of the result
calculate_profit_with_budget_HomeIgnoresResult(row, team, budget) ==
  IF TeamEq(row.HomeTeam, team)
    THEN (budget * row.XBH) - budget
  ELSE IF TeamEq(row.AwayTeam, team) /\ row.FTR = "A"
    THEN (budget * row.XBA) - budget
  ELSE -budget

calculate_profit_with_budget(row, team, budget) ==
  IF TeamEq(row.HomeTeam, team) /\ row.FTR = "H"
    THEN (budget * row.XBH) - budget
  ELSE IF TeamEq(row.AwayTeam, team) /\ row.FTR = "A"
    THEN (budget * row.XBA) - budget
  ELSE -budget

\* set(df['HomeTeam'].unique()) | set(df['AwayTeam'].unique())
all_teams(df) == {df[i][1] : i \in DOMAIN df} \cup {df[i][2] : i \in DOMAIN df}

\* sorted() of a list mixing str and float raises TypeError
SortRaises(df) == NaN \in all_teams(df) /\ all_teams(df) # {NaN}

\* (df['HomeTeam'] == selected_team) | (df['AwayTeam'] == selected_team)
TeamMask(home, away, team) == TeamEq(home, team) \/ TeamEq(away, team)

FilterTeam(df, team) == SelectSeq(df, LAMBDA f : TeamMask(f[1], f[2], team))

\* ((current_budget - initial_budget) / initial_budget) * 100 >= cash_out_value,
\* for initial_budget > 0, without the division
ThresholdReached(budget, initial, value) ==
  (budget - initial) * 100 >= value * initial

\* the policy branches tested before the ruin branch
CashOutCheck_PolicyFirst(budget, games, type, value, initial) ==
  IF type = FixedGames /\ games >= value THEN "as planned"
  ELSE IF type = ProfitThreshold /\ ThresholdReached(budget, initial, value)
    THEN "reaching threshold"
  ELSE IF budget <= 0 THEN "went to zero"
  ELSE "None"

\* games_played > cash_out_value in place of >=
CashOutCheck_OffByOne(budget, games, type, value, initial) ==
  IF budget <= 0 THEN "went to zero"
  ELSE IF type = FixedGames /\ games > value THEN "as planned"
  ELSE IF type = ProfitThreshold /\ ThresholdReached(budget, initial, value)
    THEN "reaching threshold"
  ELSE "None"

\* the fixed-games branch compares the method with a label it never has
CashOutCheck_FixedTypo(budget, games, type, value, initial) ==
  IF budget <= 0 THEN "went to zero"
  ELSE IF type = "After fixed number of matches" /\ games >= value THEN "as planned"
  ELSE IF type = ProfitThreshold /\ ThresholdReached(budget, initial, value)
    THEN "reaching threshold"
  ELSE "None"

\* the if/elif chain of lines 115-130; "None" when no branch fires
CashOutCheck(budget, games, type, value, initial) ==
  IF budget <= 0 THEN "went to zero"
  ELSE IF type = FixedGames /\ games >= value THEN "as planned"
  ELSE IF type = ProfitThreshold /\ ThresholdReached(budget, initial, value)
    THEN "reaching threshold"
  ELSE "None"

\* line 116
ClampBudget(budget) == IF budget <= 0 THEN 0 ELSE budget

\* lines 136-140
ExhaustedReason(type) ==
  IF type = PlayAll THEN "played all" ELSE "played all (not met)"

\* the reason decided by the number of games played
FinalReason_ByCount(reason, type, games, available) ==
  IF games = available /\ reason # "went to zero"
    THEN ExhaustedReason(type) ELSE reason

\* lines 136-140: the reason after the loop
FinalReason(reason, type, games, available) ==
  IF reason = "None" THEN ExhaustedReason(type) ELSE reason

\* line 146
BudgetAfterColumn(bs, ps) == [i \in 1..Len(bs) |-> bs[i] + ps[i]]

\* lines 152-154
ResultColumn(ps) == [i \in 1..Len(ps) |-> IF ps[i] > 0 THEN "Win" ELSE "Loss/Draw"]

\* lines 149-151
VenueColumn(rows, team) ==
  [i \in 1..Len(rows) |-> IF TeamEq(rows[i].HomeTeam, team) THEN "Home" ELSE "Away"]

\* line 175
CountWins(ps) == Cardinality({i \in 1..Len(ps) : ps[i] > 0})

\* ---- state --------------------------------------------------------------
VARIABLES pc, selected_team, initial_budget, cash_out_type, cash_out_value,
          n_matches, team_matches, current_budget, budgets, profits,
          cash_out_reason, games_played, summary

vars == <<pc, selected_team, initial_budget, cash_out_type, cash_out_value,
          n_matches, team_matches, current_budget, budgets, profits,
          cash_out_reason, games_played, summary>>

config == <<selected_team, initial_budget, cash_out_type, cash_out_value>>
loopvars == <<team_matches, current_budget, budgets, profits,
              cash_out_reason, games_played>>

Init ==
  /\ pc = "upload"
  /\ selected_team = NoTeam
  /\ initial_budget = 0
  /\ cash_out_type = PlayAll
  /\ cash_out_value = NoValue
  /\ n_matches = 0
  /\ team_matches = <<>>
  /\ current_budget = 0
  /\ budgets = <<>>
  /\ profits = <<>>
  /\ cash_out_reason = "None"
  /\ games_played = 0
  /\ summary = <<>>

\* the widget values of lines 62-81
Widgets(budget, type, value) ==
  /\ budget \in InitialBudgets
  /\ \/ type = FixedGames /\ value \in FixedGamesValues
     \/ type = ProfitThreshold /\ value \in ThresholdValues
     \/ type = PlayAll /\ value = NoValue

\* lines 51-59 raise: sorted() over names mixing str and NaN
SortError ==
  /\ pc = "upload"
  /\ \E df \in DataFrames : SortRaises(df)
  /\ pc' = "error"
  /\ UNCHANGED <<config, n_matches, loopvars, summary>>

\* lines 59, 83: no team to select in an empty frame, the script shows nothing
NoSelection ==
  /\ pc = "upload"
  /\ \E df \in DataFrames : all_teams(df) = {}
  /\ pc' = "idle"
  /\ UNCHANGED <<config, n_matches, loopvars, summary>>

\* no early return on an empty selection
Filter_NoReturn(df, team, budget, type, value) ==
  LET matches == FilterTeam(df, team) IN
  /\ selected_team' = team
  /\ initial_budget' = budget
  /\ cash_out_type' = type
  /\ cash_out_value' = value
  /\ n_matches' = Len(matches)
  /\ pc' = "loop"
  /\ current_budget' = budget
  /\ budgets' = <<>>
  /\ profits' = <<>>
  /\ cash_out_reason' = "None"
  /\ games_played' = 0
  /\ UNCHANGED <<team_matches, summary>>

\* lines 85-100 for a selected team with the widget values
Filter(df, team, budget, type, value) ==
  LET matches == FilterTeam(df, team) IN
  /\ selected_team' = team
  /\ initial_budget' = budget
  /\ cash_out_type' = type
  /\ cash_out_value' = value
  /\ n_matches' = Len(matches)
  /\ IF Len(matches) = 0
       THEN /\ pc' = "empty"
            /\ UNCHANGED <<loopvars, summary>>
       ELSE /\ pc' = "loop"
            /\ current_budget' = budget
            /\ budgets' = <<>>
            /\ profits' = <<>>
            /\ cash_out_reason' = "None"
            /\ games_played' = 0
            /\ UNCHANGED <<team_matches, summary>>

SelectTeam ==
  /\ pc = "upload"
  /\ \E df \in DataFrames :
       /\ ~SortRaises(df)
       /\ \E team \in all_teams(df) :
          \E budget \in InitialBudgets :
          \E type \in {FixedGames, ProfitThreshold, PlayAll} :
          \E value \in FixedGamesValues \cup ThresholdValues \cup {NoValue} :
            /\ Widgets(budget, type, value)
            /\ Filter(df, team, budget, type, value)

\* the threshold compared with the budget before the match
LoopBody_PreMatchCheck(row) ==
  LET profit == calculate_profit_with_budget(row, selected_team, current_budget)
      after == current_budget + profit
      reason == IF after <= 0 THEN "went to zero"
                ELSE CashOutCheck(current_budget, games_played + 1, cash_out_type,
                                  cash_out_value, initial_budget)
  IN
  /\ games_played' = games_played + 1
  /\ budgets' = Append(budgets, current_budget)
  /\ profits' = Append(profits, profit)
  /\ team_matches' = Append(team_matches, row)
  /\ current_budget' = ClampBudget(after)
  /\ cash_out_reason' = reason
  /\ pc' = IF reason # "None" THEN "report" ELSE "loop"

\* the budget not carried into the next bet
LoopBody_NoCarry(row) ==
  LET profit == calculate_profit_with_budget(row, selected_team, current_budget)
      after == current_budget + profit
      reason == CashOutCheck(after, games_played + 1, cash_out_type,
                             cash_out_value, initial_budget)
  IN
  /\ games_played' = games_played + 1
  /\ budgets' = Append(budgets, current_budget)
  /\ profits' = Append(profits, profit)
  /\ team_matches' = Append(team_matches, row)
  /\ current_budget' = IF after <= 0 THEN 0 ELSE current_budget
  /\ cash_out_reason' = reason
  /\ pc' = IF reason # "None" THEN "report" ELSE "loop"

\* games_played incremented at the end of the body, after the break
LoopBody_CountAfterBreak(row) ==
  LET profit == calculate_profit_with_budget(row, selected_team, current_budget)
      after == current_budget + profit
      reason == CashOutCheck(after, games_played + 1, cash_out_type,
                             cash_out_value, initial_budget)
  IN
  /\ games_played' = IF reason # "None" THEN games_played ELSE games_played + 1
  /\ budgets' = Append(budgets, current_budget)
  /\ profits' = Append(profits, profit)
  /\ team_matches' = Append(team_matches, row)
  /\ current_budget' = ClampBudget(after)
  /\ cash_out_reason' = reason
  /\ pc' = IF reason # "None" THEN "report" ELSE "loop"

\* the profit added to the budget twice
LoopBody_DoubleUpdate(row) ==
  LET profit == calculate_profit_with_budget(row, selected_team, current_budget)
      after == current_budget + profit + profit
      reason == CashOutCheck(after, games_played + 1, cash_out_type,
                             cash_out_value, initial_budget)
  IN
  /\ games_played' = games_played + 1
  /\ budgets' = Append(budgets, current_budget)
  /\ profits' = Append(profits, profit)
  /\ team_matches' = Append(team_matches, row)
  /\ current_budget' = ClampBudget(after)
  /\ cash_out_reason' = reason
  /\ pc' = IF reason # "None" THEN "report" ELSE "loop"

\* the loop body, lines 103-133, on the next row of team_matches
LoopBody(row) ==
  LET profit == calculate_profit_with_budget(row, selected_team, current_budget)
      after == current_budget + profit
      reason == CashOutCheck(after, games_played + 1, cash_out_type,
                             cash_out_value, initial_budget)
  IN
  /\ games_played' = games_played + 1
  /\ budgets' = Append(budgets, current_budget)
  /\ profits' = Append(profits, profit)
  /\ team_matches' = Append(team_matches, row)
  /\ current_budget' = ClampBudget(after)
  /\ cash_out_reason' = reason
  /\ pc' = IF reason # "None" THEN "report" ELSE "loop"

Iterate ==
  /\ pc = "loop"
  /\ games_played < n_matches
  /\ \E row \in Rows :
       /\ TeamMask(row.HomeTeam, row.AwayTeam, selected_team)
       /\ LoopBody(row)
  /\ UNCHANGED <<config, n_matches, summary>>

\* the loop never sees the end of the frame
LoopExit_Never ==
  /\ pc = "loop"
  /\ games_played > n_matches
  /\ pc' = "report"
  /\ UNCHANGED <<config, n_matches, loopvars, summary>>

\* the iterator of line 102 is exhausted
LoopExit ==
  /\ pc = "loop"
  /\ games_played = n_matches
  /\ pc' = "report"
  /\ UNCHANGED <<config, n_matches, loopvars, summary>>

\* lines 136-199
Summarise(reason, rows, bs, ps, team, initial) ==
  LET after == BudgetAfterColumn(bs, ps)
      final == IF Len(bs) > 0 THEN after[Len(bs)] ELSE initial
  IN [cash_out_reason |-> reason,
      Budget_Before |-> bs,
      Profit |-> ps,
      Budget_After |-> after,
      Home_or_Away |-> VenueColumn(rows, team),
      Result |-> ResultColumn(ps),
      total_matches |-> Len(bs),
      games_actually_played |-> Len(bs),
      final_budget |-> final,
      total_profit |-> final - initial,
      wins |-> CountWins(ps)]

Report ==
  /\ pc = "report"
  /\ cash_out_reason' = FinalReason(cash_out_reason, cash_out_type,
                                     games_played, n_matches)
  /\ summary' = <<Summarise(cash_out_reason', team_matches, budgets, profits,
                            selected_team, initial_budget)>>
  /\ pc' = "done"
  /\ UNCHANGED <<config, n_matches, team_matches, current_budget, budgets,
                 profits, games_played>>

Next == SortError \/ NoSelection \/ SelectTeam \/ Iterate \/ LoopExit \/ Report

Spec == Init /\ [][Next]_vars

\* the script runs to its end: the loop takes its next iteration, leaves when
\* the frame is exhausted, and the report follows
FairSpec ==
  Init /\ [][Next]_vars /\ WF_vars(Iterate) /\ WF_vars(LoopExit) /\ WF_vars(Report)

\* ---- flat-stake run -----------------------------------------------------
\* calculate_profit is a per-row callback; the run that applies it to the
\* team's matches is the flat mode of spec sections 4.2, 4.4 and 4.5: the
\* same loop with the stake held constant, the policy checked after each
\* match and no ruin transition.
FlatStake == 100
FlatTeams == {"A", "C"}

RECURSIVE SumSeq(_)
SumSeq(ps) == IF ps = <<>> THEN 0 ELSE ps[1] + SumSeq(Tail(ps))

\* wins / games * 100 to one decimal, in tenths of a percent
WinRateTenths(wins, games) ==
  IF games > 0 THEN (2000 * wins + games) \div (2 * games) ELSE 0

InitFlat ==
  /\ pc = "flat"
  /\ selected_team \in FlatTeams
  /\ initial_budget = FlatStake
  /\ \/ cash_out_type = FixedGames /\ cash_out_value \in FixedGamesValues
     \/ cash_out_type = PlayAll /\ cash_out_value = NoValue
  /\ n_matches \in 1..MaxMatches
  /\ team_matches = <<>>
  /\ current_budget = FlatStake
  /\ budgets = <<>>
  /\ profits = <<>>
  /\ cash_out_reason = "None"
  /\ games_played = 0
  /\ summary = <<>>

FlatPolicy(games, type, value) ==
  IF type = FixedGames /\ games >= value THEN "as planned" ELSE "None"

FlatStep ==
  /\ pc = "flat"
  /\ games_played < n_matches
  /\ \E row \in Rows :
       /\ TeamMask(row.HomeTeam, row.AwayTeam, selected_team)
       /\ games_played' = games_played + 1
       /\ budgets' = Append(budgets, current_budget)
       /\ profits' = Append(profits, calculate_profit(row, selected_team))
       /\ team_matches' = Append(team_matches, row)
       /\ cash_out_reason' = FlatPolicy(games_played', cash_out_type, cash_out_value)
       /\ pc' = IF cash_out_reason' # "None" THEN "flat_report" ELSE "flat"
  /\ UNCHANGED <<config, n_matches, current_budget, summary>>

FlatExit ==
  /\ pc = "flat"
  /\ games_played = n_matches
  /\ pc' = "flat_report"
  /\ UNCHANGED <<config, n_matches, loopvars, summary>>

FlatSummarise(reason, ps) ==
  [cash_out_reason |-> reason,
   Profit |-> ps,
   games_actually_played |-> Len(ps),
   total_profit |-> SumSeq(ps),
   wins |-> CountWins(ps),
   win_rate |-> WinRateTenths(CountWins(ps), Len(ps))]

FlatReport ==
  /\ pc = "flat_report"
  /\ cash_out_reason' = FinalReason(cash_out_reason, cash_out_type,
                                     games_played, n_matches)
  /\ summary' = <<FlatSummarise(cash_out_reason', profits)>>
  /\ pc' = "flat_done"
  /\ UNCHANGED <<config, n_matches, team_matches, current_budget, budgets,
                 profits, games_played>>

NextFlat == FlatStep \/ FlatExit \/ FlatReport

SpecFlat == InitFlat /\ [][NextFlat]_vars

\* ---- vocabulary of the claims -------------------------------------------
TerminalReason(reason) ==
  CASE reason = "went to zero" -> "Ruin"
    [] reason \in {"as planned", "reaching threshold"} -> "PolicyTriggered"
    [] reason \in {"played all", "played all (not met)"} -> "DataExhausted"
    [] OTHER -> "Running"

Classify(row, team) ==
  IF row.HomeTeam = team /\ row.FTR = "H" THEN "HomeWin"
  ELSE IF row.AwayTeam = team /\ row.FTR = "A" THEN "AwayWin"
  ELSE "Other"

\* the payout multiplier of a match the team won
Multiplier(row, team) ==
  IF Classify(row, team) = "HomeWin" THEN row.XBH ELSE row.XBA

\* the trajectory of a finished run
Traj == summary[1]
TrajLen == Len(Traj.Budget_Before)
PostMatch(i) == Traj.Budget_Before[i] + Traj.Profit[i]

\* (budget - initial) / initial * 100 >= p
PctAtLeast(budget, p) ==
  (budget - initial_budget) * 100 >= p * initial_budget

\* the configured policy's predicate after game i with post-match budget b
PolicyHolds(i, b) ==
  \/ cash_out_type = FixedGames /\ i >= cash_out_value
  \/ cash_out_type = ProfitThreshold /\ PctAtLeast(b, cash_out_value)

\* ---- C1 -----------------------------------------------------------------
\* C1: in a finished run, a match that leaves budget_before + profit <= 0 is
\* the last one recorded, the running budget, its recorded budget_after and
\* the summary's final budget are exactly 0, and the terminal reason is Ruin.
C1_RuinClampsToZero ==
  pc = "done" =>
    \A i \in 1..TrajLen :
      PostMatch(i) <= 0 =>
        /\ i = TrajLen
        /\ current_budget = 0
        /\ Traj.Budget_After[i] = 0
        /\ Traj.final_budget = 0
        /\ TerminalReason(cash_out_reason) = "Ruin"

\* ---- C2 -----------------------------------------------------------------
\* C2: whenever the budget after the last match played is <= 0, the reason
\* recorded is Ruin, for every policy, also when the policy's predicate holds
\* on that same match.
C2_RuinPrecedence ==
  (pc \in {"report", "done"} /\ games_played > 0
     /\ budgets[games_played] + profits[games_played] <= 0)
    => TerminalReason(cash_out_reason) = "Ruin"

C2_Witness ==
  /\ pc = "done"
  /\ cash_out_type = FixedGames
  /\ games_played >= cash_out_value
  /\ PostMatch(TrajLen) <= 0
  /\ TerminalReason(cash_out_reason) = "Ruin"

\* ---- C3 -----------------------------------------------------------------
\* C3: a ProfitThreshold(p) run that ends by policy ends on the first match
\* whose post-match profit percentage is >= p: the last recorded match
\* satisfies it on budget_before + profit and no earlier match does.
C3_ThresholdFirstCrossing ==
  (pc = "done" /\ cash_out_type = ProfitThreshold
     /\ TerminalReason(cash_out_reason) = "PolicyTriggered")
    => /\ TrajLen >= 1
       /\ PctAtLeast(PostMatch(TrajLen), cash_out_value)
       /\ \A i \in 1..(TrajLen - 1) : ~PctAtLeast(PostMatch(i), cash_out_value)

C3_Witness ==
  /\ pc = "done"
  /\ cash_out_type = ProfitThreshold
  /\ TerminalReason(cash_out_reason) = "PolicyTriggered"
  /\ TrajLen >= 2
  /\ ~PctAtLeast(Traj.Budget_Before[TrajLen], cash_out_value)

\* ---- C4 -----------------------------------------------------------------
NoRuinBefore(n) == \A i \in 1..TrajLen : i < n => PostMatch(i) > 0
NoRuinThrough(n) == \A i \in 1..TrajLen : i <= n => PostMatch(i) > 0

\* C4 as stated: FixedGames(n), n <= available matches, no ruin before game
\* n: the trajectory has exactly n matches and the reason is PolicyTriggered.
C4_FixedGamesOriginal ==
  (pc = "done" /\ cash_out_type = FixedGames /\ cash_out_value <= n_matches
     /\ NoRuinBefore(cash_out_value))
    => /\ TrajLen = cash_out_value
       /\ TerminalReason(cash_out_reason) = "PolicyTriggered"

\* C4 amended: FixedGames(n), n <= available matches, no ruin at or before
\* game n: the trajectory has exactly n matches and the reason is
\* PolicyTriggered.
C4_FixedGamesExact ==
  (pc = "done" /\ cash_out_type = FixedGames /\ cash_out_value <= n_matches
     /\ NoRuinThrough(cash_out_value))
    => /\ TrajLen = cash_out_value
       /\ TerminalReason(cash_out_reason) = "PolicyTriggered"

C4_Witness ==
  /\ pc = "done"
  /\ cash_out_type = FixedGames
  /\ cash_out_value >= 2
  /\ cash_out_value < n_matches
  /\ NoRuinThrough(cash_out_value)
  /\ TrajLen = cash_out_value
  /\ TerminalReason(cash_out_reason) = "PolicyTriggered"

\* ---- C5 -----------------------------------------------------------------
\* C5: every recorded outcome has budget_after = budget_before + profit, the
\* first budget_before is the initial budget, and each later budget_before is
\* the budget_after of the match before it.
C5_BudgetChain ==
  pc = "done" =>
    /\ \A i \in 1..TrajLen :
         Traj.Budget_After[i] = Traj.Budget_Before[i] + Traj.Profit[i]
    /\ TrajLen >= 1 => Traj.Budget_Before[1] = initial_budget
    /\ \A i \in 1..(TrajLen - 1) :
         Traj.Budget_Before[i + 1] = Traj.Budget_After[i]

C5_Witness ==
  /\ pc = "done"
  /\ TrajLen = 3
  /\ Traj.Budget_Before[2] # Traj.Budget_Before[1]
  /\ Traj.Budget_Before[3] # Traj.Budget_Before[2]

\* ---- C6 -----------------------------------------------------------------
\* C6: a match classified Other for the selected team has profit -100 under
\* calculate_profit and -budget_before under calculate_profit_with_budget,
\* and in a run that profit is strictly negative: for every match recorded
\* so far, and for every row the loop could be handed at the current budget.
C6_OtherLosesStake ==
  /\ \A i \in 1..Len(team_matches) :
       Classify(team_matches[i], selected_team) = "Other" =>
         /\ profits[i] = -budgets[i]
         /\ profits[i] < 0
         /\ calculate_profit(team_matches[i], selected_team) = -100
  /\ pc = "loop" =>
       \A r \in Rows :
         Classify(r, selected_team) = "Other" =>
           /\ calculate_profit_with_budget(r, selected_team, current_budget)
                = -current_budget
           /\ calculate_profit_with_budget(r, selected_team, current_budget) < 0
           /\ calculate_profit(r, selected_team) = -100

C6_Witness ==
  /\ pc = "done"
  /\ TrajLen = 2
  /\ Classify(team_matches[2], selected_team) = "Other"
  /\ team_matches[2].FTR = "D"
  /\ Traj.Profit[2] = -Traj.Budget_Before[2]
  /\ Traj.Budget_Before[2] > initial_budget

\* ---- C7 -----------------------------------------------------------------
HomeWinAt2 ==
  [HomeTeam |-> "A", AwayTeam |-> "B", FTR |-> "H", XBH |-> 2, XBA |-> UnreadOdds]
AwayLoss ==
  [HomeTeam |-> "B", AwayTeam |-> "A", FTR |-> "H", XBH |-> 2, XBA |-> UnreadOdds]
AwayWinAt3 ==
  [HomeTeam |-> "B", AwayTeam |-> "A", FTR |-> "A", XBH |-> UnreadOdds, XBA |-> 3]
ThreeMatches == <<HomeWinAt2, AwayLoss, AwayWinAt3>>

\* the run of the scenario: the rows read so far are the first rows of it
Scenario ==
  /\ selected_team = "A"
  /\ initial_budget = 100
  /\ cash_out_type = PlayAll
  /\ n_matches = 3
  /\ Len(team_matches) <= 3
  /\ team_matches = SubSeq(ThreeMatches, 1, Len(team_matches))

\* C7 as stated: the scenario runs all three matches with budgets before
\* 100, 200, 100, profits 100, -200, 200, final budget 300, DataExhausted.
C7_ScenarioOriginal ==
  (Scenario /\ pc = "done")
    => /\ Traj.Budget_Before = <<100, 200, 100>>
       /\ Traj.Profit = <<100, -200, 200>>
       /\ Traj.final_budget = 300
       /\ TerminalReason(cash_out_reason) = "DataExhausted"

\* C7 amended: the scenario stops at the second match: budgets before
\* 100, 200, profits 100, -200, running budget 0, final budget 0, Ruin.
C7_ScenarioRuin ==
  (Scenario /\ pc = "done")
    => /\ Traj.Budget_Before = <<100, 200>>
       /\ Traj.Profit = <<100, -200>>
       /\ Traj.final_budget = 0
       /\ current_budget = 0
       /\ games_played = 2
       /\ TerminalReason(cash_out_reason) = "Ruin"

C7_Witness == Scenario /\ pc = "done" /\ games_played = 2

\* ---- C8 -----------------------------------------------------------------
\* C8: no match recorded in the trajectory is a win of the selected team
\* paid at a multiplier <= 0: such a match ends the run in InvalidOdds
\* before any profit is computed from it.
C8_InvalidOddsRejected ==
  \A i \in 1..Len(team_matches) :
    Classify(team_matches[i], selected_team) # "Other" =>
      Multiplier(team_matches[i], selected_team) > 0

\* ---- C9 -----------------------------------------------------------------
\* C9: a finished run has one of the three terminal reasons; it is
\* DataExhausted exactly when every available match was played and neither
\* ruin nor the policy's predicate held after the last one; PlayAll never
\* ends by policy; FixedGames(n) with n above the available matches and no
\* ruin ends DataExhausted with every available match recorded.
C9_ExactlyOneReason ==
  pc = "done" =>
    /\ TrajLen >= 1
    /\ TerminalReason(cash_out_reason) \in {"Ruin", "PolicyTriggered", "DataExhausted"}
    /\ TerminalReason(cash_out_reason) = "DataExhausted"
         <=> /\ TrajLen = n_matches
             /\ PostMatch(TrajLen) > 0
             /\ ~PolicyHolds(TrajLen, PostMatch(TrajLen))
    /\ cash_out_type = PlayAll
         => TerminalReason(cash_out_reason) # "PolicyTriggered"
    /\ (cash_out_type = FixedGames /\ cash_out_value > n_matches
          /\ NoRuinThrough(TrajLen))
         => /\ TerminalReason(cash_out_reason) = "DataExhausted"
            /\ TrajLen = n_matches

C9_Witness ==
  /\ pc = "done"
  /\ cash_out_type = FixedGames
  /\ cash_out_value = n_matches
  /\ n_matches >= 2
  /\ TrajLen = n_matches
  /\ TerminalReason(cash_out_reason) = "PolicyTriggered"

\* ---- C10 ----------------------------------------------------------------
\* C10: when the filter keeps no match for the selected team the run ends in
\* the empty-match-set outcome: the loop is never entered, no budget or
\* profit is recorded and no summary is computed.
C10_EmptyMatchSet ==
  (selected_team # NoTeam /\ n_matches = 0)
    => /\ pc = "empty"
       /\ team_matches = <<>>
       /\ budgets = <<>>
       /\ profits = <<>>
       /\ games_played = 0
       /\ cash_out_reason = "None"
       /\ summary = <<>>

C10_Witness == pc = "empty" /\ selected_team = NaN /\ n_matches = 0

\* ---- C11 ----------------------------------------------------------------
\* what the stake of 100 returns on each match of the scenario
ScenarioProfit(row) ==
  IF row = HomeWinAt2 THEN 100 ELSE IF row = AwayLoss THEN -100 ELSE 200

InScenario(row) == row \in {HomeWinAt2, AwayLoss, AwayWinAt3}

FlatScenario ==
  /\ pc = "flat_done"
  /\ selected_team = "A"
  /\ Len(team_matches) = 3
  /\ {team_matches[i] : i \in 1..3} = {HomeWinAt2, AwayLoss, AwayWinAt3}

\* C11: with stake 100 and team A, the home win at 2.0 earns 100, the away
\* loss -100 and the away win at 3.0 earns 200 wherever the match stands in
\* the run and whatever was played before it; a run over the three matches,
\* in any order, totals 200 with 2 wins of 3 (66.7%).
C11_FlatScenario ==
  /\ selected_team = "A" =>
       \A i \in 1..Len(team_matches) :
         InScenario(team_matches[i]) =>
           profits[i] = ScenarioProfit(team_matches[i])
  /\ FlatScenario =>
       /\ summary[1].total_profit = 200
       /\ summary[1].wins = 2
       /\ summary[1].games_actually_played = 3
       /\ summary[1].win_rate = 667

C11_Witness ==
  /\ FlatScenario
  /\ team_matches = <<AwayWinAt3, AwayLoss, HomeWinAt2>>
  /\ profits = <<200, -100, 100>>

C13_GamesPlayedCounts ==
  /\ [](/\ games_played = Len(budgets)
        /\ games_played = Len(profits)
        /\ games_played = Len(team_matches)
        /\ games_played <= n_matches
        /\ pc = "done" => Traj.games_actually_played = games_played)
  /\ [][\/ games_played' = games_played /\ Len(budgets') = Len(budgets)
        \/ games_played' = games_played + 1 /\ Len(budgets') = Len(budgets) + 1]_vars

C13_Witness ==
  /\ pc = "done"
  /\ games_played = 2
  /\ n_matches = 3
  /\ Traj.games_actually_played = 2

\* ---- C14 ----------------------------------------------------------------
\* C14: under FixedGames(n) no more than n outcomes are ever recorded,
\* whatever the terminal reason.
C14_FixedGamesCap ==
  cash_out_type = FixedGames =>
    /\ Len(budgets) <= cash_out_value
    /\ pc = "done" => TrajLen <= cash_out_value

C14_Witness ==
  /\ pc = "done"
  /\ cash_out_type = FixedGames
  /\ cash_out_value >= 2
  /\ cash_out_value < n_matches
  /\ TrajLen = cash_out_value
  /\ TerminalReason(cash_out_reason) = "Ruin"

\* ---- C15 ----------------------------------------------------------------
\* C15: a run that entered the loop reaches the stopped state with a
\* terminal reason, having played no more matches than are available, and
\* from the stopped state no step changes anything.
C15_RunTerminates ==
  /\ (pc = "loop") ~> (pc = "done" /\ TerminalReason(cash_out_reason) # "Running")
  /\ [](games_played <= n_matches)
  /\ [][pc # "done"]_vars

C15_Witness ==
  /\ pc = "done"
  /\ games_played = n_matches
  /\ n_matches = 3
  /\ TerminalReason(cash_out_reason) = "DataExhausted"

\* ---- C16 ----------------------------------------------------------------
\* C16: once the run is set up, the initial budget and the rows already read
\* never change, and the running budget changes only in a step that plays
\* one match, to budget + profit of that match clamped at 0.
C16_BudgetOwnedByLoop ==
  [][pc # "upload" =>
       /\ initial_budget' = initial_budget
       /\ selected_team' = selected_team
       /\ SubSeq(team_matches', 1, Len(team_matches)) = team_matches
       /\ current_budget' # current_budget =>
            /\ games_played' = games_played + 1
            /\ LET after == current_budget + profits'[Len(profits')] IN
               current_budget' = IF after <= 0 THEN 0 ELSE after]_vars

C16_Witness ==
  /\ pc = "loop"
  /\ games_played = 2
  /\ current_budget = budgets[2] + profits[2]
  /\ current_budget # initial_budget
  /\ current_budget # budgets[2]

\* ---- C17 ----------------------------------------------------------------
\* C17: every budget_before is > 0; every recorded match but the last is a
\* win of the selected team with budget_after > 0; a match classified Other
\* is the last one recorded, leaves budget 0 and ends the run in Ruin.
C17_OnlyLastCanLose ==
  \A i \in 1..Len(budgets) :
    /\ budgets[i] > 0
    /\ i < Len(budgets) =>
         /\ Classify(team_matches[i], selected_team) # "Other"
         /\ budgets[i] + profits[i] > 0
    /\ Classify(team_matches[i], selected_team) = "Other" =>
         /\ i = Len(budgets)
         /\ budgets[i] + profits[i] = 0
         /\ current_budget = 0
         /\ TerminalReason(cash_out_reason) = "Ruin"

C17_Witness ==
  /\ pc = "done"
  /\ TrajLen = 3
  /\ Classify(team_matches[1], selected_team) = "HomeWin"
  /\ Classify(team_matches[2], selected_team) = "AwayWin"
  /\ Classify(team_matches[3], selected_team) = "Other"
  /\ TerminalReason(cash_out_reason) = "Ruin"

\* ---- C18 ----------------------------------------------------------------
ClassifiedWins == {i \in 1..TrajLen : Classify(team_matches[i], selected_team) # "Other"}

\* every win of the run was paid at a multiplier above m
WinsPaidAbove(m) ==
  \A i \in ClassifiedWins : Multiplier(team_matches[i], selected_team) > m

\* C18 as stated: with positive multipliers, an outcome is tagged 'Win' and
\* counted iff the match is a HomeWin or AwayWin of the selected team.
C18_WinTagOriginal ==
  (pc = "done" /\ WinsPaidAbove(0))
    => /\ \A i \in 1..TrajLen : Traj.Result[i] = "Win" <=> i \in ClassifiedWins
       /\ Traj.wins = Cardinality(ClassifiedWins)

\* C18 amended: with multipliers above 1, an outcome is tagged 'Win' and
\* counted iff the match is a HomeWin or AwayWin of the selected team.
C18_WinTagAboveEvens ==
  (pc = "done" /\ WinsPaidAbove(1))
    => /\ \A i \in 1..TrajLen : Traj.Result[i] = "Win" <=> i \in ClassifiedWins
       /\ Traj.wins = Cardinality(ClassifiedWins)

C18_Witness ==
  /\ pc = "done"
  /\ WinsPaidAbove(1)
  /\ TrajLen = 3
  /\ Traj.Result = <<"Win", "Win", "Loss/Draw">>
  /\ Traj.wins = 2
  /\ team_matches[3].FTR = "D"

====
